---- MODULE Spec2Model ----
(***************************************************************************)
(* A model of the flight route optimizer (backend/algorithm.py and         *)
(* backend/iata_lookup.py): the sliding-window RateLimiter shared by the   *)
(* callers of one RouteOptimizer, the location resolver with its           *)
(* normalization cache, the cached price fetcher and the permutation       *)
(* search of find_optimal_routes.                                          *)
(*                                                                         *)
(* Time is a discrete clock; one unit of time_window stands for the        *)
(* limiter's window.  A blocking time.sleep(d) ends at any clock value     *)
(* not earlier than the moment it started plus d.                          *)
(***************************************************************************)
EXTENDS Integers, Sequences, FiniteSets, TLC

\* ------------------------------------------------------------------------
\* Bounds of the model
\* ------------------------------------------------------------------------

\* RateLimiter(max_requests, time_window): the limiter's two parameters.
max_requests == 2
time_window == 2

\* Number of threads calling wait_if_needed concurrently, the number of
\* calls they issue in total, and the last instant at which the clock
\* advances on its own (a sleeping caller lets it advance further).
NumThreads == 2
MaxCalls == 4
MaxTime == 3

Threads == 1..NumThreads

VARIABLES
    clock,      \* time.time()
    requests,   \* RateLimiter.requests: the deque of tracked timestamps
    lock,       \* RateLimiter.lock: 0 when free, else the holding thread
    pc,         \* per thread: "idle", "acquire" (blocked on the lock), "sleep"
    now,        \* per thread: the local `now` of wait_if_needed
    wakeAt,     \* per thread: earliest instant at which time.sleep returns
    appended,   \* per thread: timestamps appended by its latest call
    calls,      \* per thread: calls of wait_if_needed issued so far
    admitted,   \* history: the instant of every return from wait_if_needed
    iata_cache, \* RouteOptimizer.iata_cache: lower-cased text -> code
    lookups,    \* calls of iata_lookup.get_iata_code made so far
    resolved,   \* history: every resolution, as [text, code, looked_up]
    trip,       \* the arguments of find_optimal_routes
    net,        \* the network: how long a request takes, a sleep overruns
    phase,      \* find_optimal_routes: "idle", "call", "eval", "rank", "done"
    permIdx,    \* position in itertools.permutations(range(len(middle_cities)))
    ev,         \* locals of _calculate_route_cost_with_dates_and_prices
    all_routes, \* find_optimal_routes: the routes kept so far
    result,     \* the list find_optimal_routes returns
    evLog,      \* history: per ordering, the tuple the cost evaluator returned
    num_results, \* the num_results argument, read when ranking
    price_cache, \* RouteOptimizer.price_cache: cache key -> price
    apiLog,     \* history: every request sent to the price API
    legLog,     \* history: per ordering, the prices _get_flight_price returned
    nprice,     \* calls of _get_flight_price made so far
    last,       \* the latest call of _get_flight_price: its arguments, the
                \* price it returned and how it ended ("hit", "ok", "fail")
    payload,    \* the parsed body handed to _extract_price_from_response
    extracted   \* what _extract_price_from_response returned for it, if yet

threadVars == <<lock, pc, now, wakeAt, appended, calls, admitted>>
resolverVars == <<iata_cache, lookups, resolved>>
searchVars == <<trip, net, phase, permIdx, ev, all_routes, result, evLog, num_results>>
priceVars == <<price_cache, apiLog, legLog, nprice, last, payload, extracted>>

vars == <<clock, requests, lock, pc, now, wakeAt, appended, calls, admitted,
          iata_cache, lookups, resolved,
          trip, net, phase, permIdx, ev, all_routes, result, evLog, num_results,
          price_cache, apiLog, legLog, nprice, last, payload, extracted>>

\* ------------------------------------------------------------------------
\* RateLimiter
\* ------------------------------------------------------------------------

\* while self.requests and self.requests[0] < t - self.time_window: popleft()
RECURSIVE PurgeOld(_, _)
PurgeOld(reqs, t) ==
    IF reqs # <<>> /\ reqs[1] < t - time_window
    THEN PurgeOld(Tail(reqs), t)
    ELSE reqs

\* sleep_time = self.requests[0] - (now - self.time_window)
SleepTime(reqs, t) == reqs[1] - (t - time_window)

\* if len(self.requests) >= self.max_requests: ... if sleep_time > 0
MustSleep(reqs, t) ==
    /\ Len(reqs) >= max_requests
    /\ SleepTime(reqs, t) > 0

\* self.requests.append(now)
Record(reqs, t) == Append(reqs, t)

RECURSIVE TotalCalls(_)
TotalCalls(n) == IF n = 0 THEN 0 ELSE calls[n] + TotalCalls(n - 1)

\* Mutant for C9: the lock is kept by the caller that leaves the block.
ReleasedNever(t) == t

\* Leaving `with self.lock`: the lock is free again.
Released(t) == 0

\* RateLimiter.__init__, with no caller inside wait_if_needed
FreshLimiter ==
    /\ clock = 0
    /\ requests = <<>>
    /\ lock = 0
    /\ pc = [t \in Threads |-> "idle"]
    /\ now = [t \in Threads |-> 0]
    /\ wakeAt = [t \in Threads |-> 0]
    /\ appended = [t \in Threads |-> 0]
    /\ calls = [t \in Threads |-> 0]
    /\ admitted = <<>>

\* RouteOptimizer.__init__: empty caches
FreshCaches ==
    /\ iata_cache = <<>>
    /\ lookups = 0
    /\ resolved = <<>>
    /\ price_cache = <<>>
    /\ apiLog = <<>>
    /\ legLog = <<>>
    /\ nprice = 0
    /\ last = [from_city |-> <<>>, to_city |-> <<>>, date |-> <<>>,
               price |-> 0, outcome |-> "none"]

\* The locals of the cost evaluator at its first leg
EvStart ==
    [i |-> 1, current_date |-> 0, total_cost |-> 0,
     individual_prices |-> <<>>, flight_dates |-> <<>>]

\* No search is running
NoSearch ==
    /\ trip = [start_city |-> <<>>, end_city |-> <<>>, middle_cities |-> <<>>]
    /\ net = [latency |-> 0, oversleep |-> 0]
    /\ phase = "idle"
    /\ permIdx = 1
    /\ ev = EvStart
    /\ all_routes = <<>>
    /\ result = <<>>
    /\ evLog = <<>>
    /\ num_results = 0

\* No body is being extracted from
Pending == [done |-> FALSE]
NoExtraction ==
    /\ payload = [kind |-> "other"]
    /\ extracted = Pending

LimiterInit == FreshLimiter /\ FreshCaches /\ NoSearch /\ NoExtraction

\* A thread calls wait_if_needed and blocks on `with self.lock`.
Call(t) ==
    /\ pc[t] = "idle"
    /\ TotalCalls(NumThreads) < MaxCalls
    /\ pc' = [pc EXCEPT ![t] = "acquire"]
    /\ appended' = [appended EXCEPT ![t] = 0]
    /\ calls' = [calls EXCEPT ![t] = @ + 1]
    /\ UNCHANGED <<clock, requests, lock, now, wakeAt, admitted>>
    /\ UNCHANGED <<resolverVars, searchVars, priceVars>>

\* The thread gets the lock, reads the clock, purges, finds room (or a
\* sleep_time that is not positive), appends `now` and returns.
EnterAdmit(t) ==
    /\ pc[t] = "acquire"
    /\ lock = 0
    /\ LET purged == PurgeOld(requests, clock) IN
        /\ ~MustSleep(purged, clock)
        /\ requests' = Record(purged, clock)
        /\ appended' = [appended EXCEPT ![t] = @ + Len(requests') - Len(purged)]
    /\ now' = [now EXCEPT ![t] = clock]
    /\ admitted' = Append(admitted, clock)
    /\ lock' = Released(t)
    /\ pc' = [pc EXCEPT ![t] = "idle"]
    /\ UNCHANGED <<clock, wakeAt, calls>>
    /\ UNCHANGED <<resolverVars, searchVars, priceVars>>

\* The thread gets the lock, reads the clock, purges, finds the window full
\* and goes to sleep holding the lock.
EnterSleep(t) ==
    /\ pc[t] = "acquire"
    /\ lock = 0
    /\ LET purged == PurgeOld(requests, clock) IN
        /\ MustSleep(purged, clock)
        /\ requests' = purged
        /\ wakeAt' = [wakeAt EXCEPT ![t] = clock + SleepTime(purged, clock)]
    /\ now' = [now EXCEPT ![t] = clock]
    /\ lock' = t
    /\ pc' = [pc EXCEPT ![t] = "sleep"]
    /\ UNCHANGED <<clock, appended, calls, admitted>>
    /\ UNCHANGED <<resolverVars, searchVars, priceVars>>

\* The timestamp the caller records once its sleep is over: the local `now`.
Stamp(t) == now[t]

\* time.sleep returns; the thread purges against the current clock, appends
\* its timestamp, releases the lock and returns.
Wake(t) ==
    /\ pc[t] = "sleep"
    /\ clock >= wakeAt[t]
    /\ LET purged == PurgeOld(requests, clock) IN
        /\ requests' = Record(purged, Stamp(t))
        /\ appended' = [appended EXCEPT ![t] = @ + Len(requests') - Len(purged)]
    /\ admitted' = Append(admitted, clock)
    /\ lock' = Released(t)
    /\ pc' = [pc EXCEPT ![t] = "idle"]
    /\ UNCHANGED <<clock, now, wakeAt, calls>>
    /\ UNCHANGED <<resolverVars, searchVars, priceVars>>

Sleeping == \E t \in Threads : pc[t] = "sleep" /\ clock < wakeAt[t]

\* Time passes.
Tick ==
    /\ clock < MaxTime \/ Sleeping
    /\ clock' = clock + 1
    /\ UNCHANGED <<requests, lock, pc, now, wakeAt, appended, calls, admitted>>
    /\ UNCHANGED <<resolverVars, searchVars, priceVars>>

LimiterNext ==
    \/ \E t \in Threads : Call(t)
    \/ \E t \in Threads : EnterAdmit(t)
    \/ \E t \in Threads : EnterSleep(t)
    \/ \E t \in Threads : Wake(t)
    \/ Tick

SpecLimiter == LimiterInit /\ [][LimiterNext]_vars

\* Fair scheduling and advancing time: the clock keeps advancing, a sleeper
\* whose time has come wakes, and a thread blocked on the lock gets it if
\* the lock is free again and again.
FairSpecLimiter ==
    /\ SpecLimiter
    /\ WF_vars(Tick)
    /\ \A t \in Threads : WF_vars(Wake(t))
    /\ \A t \in Threads : SF_vars(EnterAdmit(t) \/ EnterSleep(t))

\* ------------------------------------------------------------------------
\* Text: a str is a sequence of one-character strings
\* ------------------------------------------------------------------------

LOWER == <<"a", "b", "c", "d", "e", "f", "g", "h", "i", "j", "k", "l", "m",
           "n", "o", "p", "q", "r", "s", "t", "u", "v", "w", "x", "y", "z">>
UPPER == <<"A", "B", "C", "D", "E", "F", "G", "H", "I", "J", "K", "L", "M",
           "N", "O", "P", "Q", "R", "S", "T", "U", "V", "W", "X", "Y", "Z">>

IsLowerChar(c) == \E i \in DOMAIN LOWER : LOWER[i] = c
IsUpperChar(c) == \E i \in DOMAIN UPPER : UPPER[i] = c
IsSpaceChar(c) == c = " "

LowerChar(c) == IF IsUpperChar(c) THEN LOWER[CHOOSE i \in DOMAIN UPPER : UPPER[i] = c] ELSE c
UpperChar(c) == IF IsLowerChar(c) THEN UPPER[CHOOSE i \in DOMAIN LOWER : LOWER[i] = c] ELSE c

\* str.lower(), str.upper()
Lower(s) == [i \in DOMAIN s |-> LowerChar(s[i])]
Upper(s) == [i \in DOMAIN s |-> UpperChar(s[i])]

\* str.isalpha(): not empty and every character a letter
IsAlpha(s) == s # <<>> /\ \A i \in DOMAIN s : IsLowerChar(s[i]) \/ IsUpperChar(s[i])

\* str.isupper(): at least one cased character and no lower-case one
IsUpper(s) ==
    /\ \E i \in DOMAIN s : IsUpperChar(s[i])
    /\ \A i \in DOMAIN s : ~IsLowerChar(s[i])

\* str.strip()
RECURSIVE LStrip(_)
LStrip(s) == IF s # <<>> /\ IsSpaceChar(s[1]) THEN LStrip(Tail(s)) ELSE s
RECURSIVE RStrip(_)
RStrip(s) ==
    IF s # <<>> /\ IsSpaceChar(s[Len(s)]) THEN RStrip(SubSeq(s, 1, Len(s) - 1)) ELSE s
Strip(s) == RStrip(LStrip(s))

\* s[:n]
Prefix(s, n) == SubSeq(s, 1, IF Len(s) < n THEN Len(s) ELSE n)

\* a in b (substring)
Contains(b, a) ==
    \E k \in 0..(Len(b) - Len(a)) : SubSeq(b, k + 1, k + Len(a)) = a

\* ------------------------------------------------------------------------
\* IATALookup over the loaded airports dataset
\* ------------------------------------------------------------------------

INTERNATIONAL == <<"i", "n", "t", "e", "r", "n", "a", "t", "i", "o", "n", "a", "l">>

\* The rows of airports.csv that load_airports_data keeps (a 3-letter iata),
\* in file order; the codes are distinct, so self.airports iterates in this
\* order.
AirportRows == <<
    [name |-> <<"A", "b", "c", " ", "F", "i", "e", "l", "d">>,
     city |-> <<"A", "b", "c">>, iata |-> <<"A", "B", "F">>],
    [name |-> <<"A", "b", "c", " ">> \o <<"I">> \o Tail(INTERNATIONAL),
     city |-> <<"A", "b", "c">>, iata |-> <<"A", "B", "I">>],
    [name |-> <<"B", "c", "a", " ", "P", "o", "r", "t">>,
     city |-> <<"B", "b">>, iata |-> <<"B", "C", "A">> ] >>

\* iata in self.airports
InAirports(code) == \E i \in DOMAIN AirportRows : AirportRows[i].iata = code

\* self.city_to_airports.get(city_key, []): the rows of that city, in order
CityAirports(city_key) ==
    SelectSeq(AirportRows, LAMBDA r : Strip(Lower(r.city)) = city_key)

IsInternational(r) == Contains(Lower(r.name), INTERNATIONAL)

\* get_iata_for_city(city_name, strategy="largest"); <<>> stands for None
get_iata_for_city(city_name) ==
    LET airports == CityAirports(Strip(Lower(city_name)))
        intl == SelectSeq(airports, IsInternational)
    IN  IF airports = <<>> THEN <<>>
        ELSE IF Len(airports) = 1 THEN airports[1].iata
        ELSE IF intl # <<>> THEN intl[1].iata
        ELSE airports[1].iata

\* The first airport, in iteration order, whose name or city contains the text
PartialMatches(input_text) ==
    SelectSeq(AirportRows,
              LAMBDA r : \/ Contains(Lower(r.name), Lower(input_text))
                         \/ Contains(Lower(r.city), Lower(input_text)))

\* IATALookup.get_iata_code(input_text)
get_iata_code(input_text) ==
    IF Len(input_text) = 3 /\ IsAlpha(input_text) /\ IsUpper(input_text)
    THEN input_text
    ELSE LET iata_code == get_iata_for_city(input_text)
             input_upper == Upper(input_text)
             matches == PartialMatches(input_text)
         IN  IF iata_code # <<>> THEN iata_code
             ELSE IF InAirports(input_upper) THEN input_upper
             ELSE IF matches # <<>> THEN matches[1].iata
             ELSE Upper(Prefix(input_text, 3))

\* ------------------------------------------------------------------------
\* RouteOptimizer._get_iata_code and its normalization cache
\* ------------------------------------------------------------------------

\* Resolutions of one optimizer instance in the resolver's own specification.
MaxResolves == 3

\* The location texts resolved: an upper-case code of no airport, its
\* lower-case spelling (a city of two airports), a one-airport city, a
\* lower-case code, a fragment of an airport name, an unknown place and a
\* name with an underscore.
Texts == {
    <<"A", "B", "C">>,
    <<"a", "b", "c">>,
    <<"B", "b">>,
    <<"b", "c", "a">>,
    <<"p", "o", "r">>,
    <<"z", "z", "z", "z">>,
    <<"B", "b", "_", "B", "b">> }

\* cache_key = city_name.lower()
IataCacheKey(city_name) == Lower(city_name)

\* Mutant for C10: the resolved code is not stored.
CacheAfterDropped(cache, key, code) == cache

\* self.iata_cache[cache_key] = code
CacheAfter(cache, key, code) ==
    [k \in DOMAIN cache \cup {key} |-> IF k = key THEN code ELSE cache[k]]

\* What a cache miss resolves to: the dataset's answer when it is not empty,
\* else the emergency fallback city_name[:3].upper().
MissCode(city_name) ==
    LET iata_code == get_iata_code(city_name)
    IN  IF iata_code # <<>> THEN iata_code ELSE Upper(Prefix(city_name, 3))

IataHit(cache, city_name) == IataCacheKey(city_name) \in DOMAIN cache

\* The code _get_iata_code returns
IataCode(cache, city_name) ==
    IF IataHit(cache, city_name)
    THEN cache[IataCacheKey(city_name)]
    ELSE MissCode(city_name)

\* The iata_cache _get_iata_code leaves behind
IataCacheNext(cache, city_name) ==
    IF IataHit(cache, city_name)
    THEN cache
    ELSE CacheAfter(cache, IataCacheKey(city_name), MissCode(city_name))

\* Dataset lookups made by one call of _get_iata_code
IataLookups(cache, city_name) == IF IataHit(cache, city_name) THEN 0 ELSE 1

ResolverInit == LimiterInit

\* self._get_iata_code(city_name)
Resolve(city_name) ==
    /\ Len(resolved) < MaxResolves
    /\ iata_cache' = IataCacheNext(iata_cache, city_name)
    /\ lookups' = lookups + IataLookups(iata_cache, city_name)
    /\ resolved' = Append(resolved,
                          [text |-> city_name,
                           code |-> IataCode(iata_cache, city_name),
                           looked_up |-> lookups' # lookups])
    /\ UNCHANGED <<clock, requests>>
    /\ UNCHANGED <<threadVars, searchVars, priceVars>>

ResolverNext == \E city_name \in Texts : Resolve(city_name)

SpecResolver == ResolverInit /\ [][ResolverNext]_vars

\* ------------------------------------------------------------------------
\* The price API's JSON payload and _extract_price_from_response
\* ------------------------------------------------------------------------

\* A `price` field: a number, a string float() parses, a value float()
\* rejects (ValueError, TypeError), None / absent, an integer beyond the
\* range of a float (float() raises OverflowError), or a NaN (the JSON
\* literal NaN, or a string such as "nan").
Num(n) == [kind |-> "num", v |-> n]
Str(n) == [kind |-> "str", v |-> n]
Bad == [kind |-> "bad"]
NoneVal == [kind |-> "none"]
Huge == [kind |-> "huge"]
NaN == [kind |-> "nan"]

\* A float: a finite value, or not-a-number
Finite(n) == [nan |-> FALSE, v |-> n]
NotANumber == [nan |-> TRUE]

\* a < b and x > 0 on floats: every comparison with a NaN is False
Less(a, b) == ~a.nan /\ ~b.nan /\ a.v < b.v
Positive(x) == ~x.nan /\ x.v > 0

\* A flight list entry: a mapping with a price field, or something else.
Flight(p) == [kind |-> "dict", price |-> p]
NotADict == [kind |-> "other"]

\* A value under a flight-list key: a list, something else, or no such key.
List(items) == [kind |-> "list", items |-> items]
Absent == [kind |-> "absent"]

FlightKeys == <<"topFlights", "otherFlights", "bestFlights", "cheapestFlights">>
NoLists == [k \in {FlightKeys[i] : i \in DOMAIN FlightKeys} |-> Absent]

Dict(status, data) == [kind |-> "dict", status |-> status, data |-> data]
Data(itineraries, lists, price) ==
    [kind |-> "dict", itineraries |-> itineraries, lists |-> lists, price |-> price]
Itineraries(lists) == [kind |-> "dict", lists |-> lists]

\* An optional float: None, or Some(v)
None == [some |-> FALSE]
Some(v) == [some |-> TRUE, v |-> v]

\* for key in [...]: if key in m and isinstance(m[key], list): append
ListsOf(lists) ==
    LET present == SelectSeq(FlightKeys, LAMBDA k : lists[k].kind = "list")
    IN  [i \in DOMAIN present |-> lists[present[i]].items]

\* flight_arrays: the nested grouping's lists, then the data mapping's own
FlightArrays(data_content) ==
    (IF data_content.itineraries.kind = "dict"
     THEN ListsOf(data_content.itineraries.lists)
     ELSE <<>>)
    \o ListsOf(data_content.lists)

\* float(price) returns a float
Parses(p) == p.kind \in {"num", "str", "nan"}
ToFloat(p) == IF p.kind = "nan" THEN NotANumber ELSE Finite(p.v)

\* float(price) raises an exception that `except (ValueError, TypeError)`
\* does not catch
Overflows(p) == p.kind = "huge"

\* Some price of some list makes the loop over flight_arrays raise
Raising(arrays) ==
    \E a \in DOMAIN arrays : \E i \in DOMAIN arrays[a] :
        arrays[a][i].kind = "dict" /\ Overflows(arrays[a][i].price)

\* The prices one list contributes, in order
PricesIn(flights) ==
    LET priced == SelectSeq(flights,
                            LAMBDA f : f.kind = "dict" /\ Parses(f.price))
    IN  [i \in DOMAIN priced |-> ToFloat(priced[i].price)]

RECURSIVE AllPrices(_)
AllPrices(arrays) ==
    IF arrays = <<>> THEN <<>>
    ELSE PricesIn(Head(arrays)) \o AllPrices(Tail(arrays))

\* min(all_prices): the first price, replaced by each later one that
\* compares less than it
RECURSIVE MinFrom(_, _)
MinFrom(m, rest) ==
    IF rest = <<>> THEN m
    ELSE MinFrom(IF Less(Head(rest), m) THEN Head(rest) ELSE m, Tail(rest))
Cheapest(prices) == MinFrom(Head(prices), Tail(prices))

\* RouteOptimizer._extract_price_from_response(data); an exception inside
\* it is caught by its `except Exception` and gives None
ExtractPrice(data) ==
    IF data.kind # "dict" THEN None
    ELSE IF data.status # "true" THEN None
    ELSE IF data.data.kind # "dict" THEN None
    ELSE IF Raising(FlightArrays(data.data)) THEN None
    ELSE LET all_prices == AllPrices(FlightArrays(data.data)) IN
         IF all_prices # <<>> THEN Some(Cheapest(all_prices))
         ELSE IF Parses(data.data.price) THEN Some(ToFloat(data.data.price))
         ELSE None

\* The longest flight list of a payload extracted from on its own.
MaxFlights == 2

\* The price fields of the entries of a flight list
ListPrices == {Num(740), Num(1300), Str(690), Bad, NoneVal, Huge, NaN}
Entries == {NotADict} \cup {Flight(p) : p \in ListPrices}

\* The flight lists of up to MaxFlights entries
FlightLists ==
    UNION {[1..n -> Entries] : n \in 0..MaxFlights}

\* What the nested grouping is: missing, or a mapping with one flight list
\* under one of the four keys
Groupings ==
    {Absent} \cup
    {Itineraries([NoLists EXCEPT ![FlightKeys[k]] = List(l)]) :
        k \in DOMAIN FlightKeys, l \in FlightLists}

\* What the data mapping itself holds under the four keys: nothing, a value
\* that is no list, or one short list under one key
TopLevels ==
    {NoLists} \cup
    {[NoLists EXCEPT ![FlightKeys[k]] = v] :
        k \in DOMAIN FlightKeys,
        v \in {NotADict, List(<<>>), List(<<Flight(Num(500))>>),
                List(<<Flight(Str(1500))>>)}}

\* The direct price field of the data mapping
DirectPrices == {NoneVal, Num(900), Bad}

\* A status field: boolean true, boolean false, the number 1, none
Statuses == {"true", "false", "one", "absent"}

\* The bodies extracted from: accepted ones, and ones that are no mapping,
\* whose status is not boolean true, or whose data is no mapping
Payloads ==
    {Dict("true", Data(g, t, d)) : g \in Groupings, t \in TopLevels, d \in DirectPrices}
    \cup {NotADict}
    \cup {Dict(st, Absent) : st \in Statuses}
    \cup {Dict(st, NotADict) : st \in Statuses}
    \cup {Dict(st, Data(Itineraries([NoLists EXCEPT !["topFlights"] =
                                         List(<<Flight(Num(740))>>)]),
                        NoLists, Num(900))) : st \in Statuses \ {"true"}}

Done(price) == [done |-> TRUE, price |-> price]

\* A fresh optimizer about to extract the price of some body
ExtractInit ==
    /\ FreshLimiter
    /\ FreshCaches
    /\ NoSearch
    /\ payload \in Payloads
    /\ extracted = Pending

\* price = self._extract_price_from_response(data)
Extract ==
    /\ ~extracted.done
    /\ extracted' = Done(ExtractPrice(payload))
    /\ UNCHANGED <<price_cache, apiLog, legLog, nprice, last, payload>>
    /\ UNCHANGED <<clock, requests, threadVars, resolverVars, searchVars>>

ExtractNext == Extract

SpecExtract == ExtractInit /\ [][ExtractNext]_vars

\* ------------------------------------------------------------------------
\* RouteOptimizer: trips, dates and cache keys
\* ------------------------------------------------------------------------

\* The longest an HTTP request takes, and the most a time.sleep overruns;
\* one search sees one latency and one overrun.
MaxLatency == 1
MaxOversleep == 1

\* The largest num_results asked for.
MaxLimit == 3

\* time.sleep(2) after a 429: seconds, one second being time_window.
BackoffSeconds == 2
Backoff == BackoffSeconds * time_window

\* base_confidence = max(0.5, 1.0 - total_cost / 5000)
FullConfidenceCost == 5000

Abc == <<"A", "b", "c">>
Bb == <<"B", "b">>
BbBb == <<"B", "b", "_", "B", "b">>
ABC == <<"A", "B", "C">>
Zzzz == <<"z", "z", "z", "z">>

Stop(name, days) == [name |-> name, days |-> days]
Trip(start_city, middle_cities, end_city) ==
    [start_city |-> start_city, end_city |-> end_city, middle_cities |-> middle_cities]

\* The trips searched: a missing start or end city; a direct flight; one
\* stop; two distinct stops; the same stop twice (both orderings fly the
\* same legs); a round trip whose two legs share their cache key.
Trips == {
    Trip(<<>>, <<>>, Bb),
    Trip(Abc, <<Stop(Bb, 1)>>, <<>>),
    Trip(Abc, <<>>, Bb),
    Trip(Abc, <<Stop(ABC, 1)>>, Bb),
    Trip(Abc, <<Stop(Bb, 1), Stop(ABC, 0)>>, Zzzz),
    Trip(Abc, <<Stop(Bb, 0), Stop(Bb, 0)>>, Abc),
    Trip(BbBb, <<Stop(Bb, 0)>>, BbBb) }

\* The fares the price API quotes.
Fares == {740, 1300}

DIGITS == <<"0", "1", "2", "3", "4", "5", "6", "7", "8", "9">>
TwoDigits(n) == <<DIGITS[(n \div 10) + 1], DIGITS[(n % 10) + 1]>>

\* strftime("%Y-%m-%d") of the trip's start date, 2024-06-01, plus d days
DateStr(d) == <<"2", "0", "2", "4", "-", "0", "6", "-">> \o TwoDigits(d + 1)

\* cache_key = f"{from_city}_{to_city}_{date}"
CacheKey(from_city, to_city, date) ==
    from_city \o <<"_">> \o to_city \o <<"_">> \o date

\* itertools.permutations(items), in its lexicographic order
Without(items, i) == SubSeq(items, 1, i - 1) \o SubSeq(items, i + 1, Len(items))
RECURSIVE PermsOf(_)
RECURSIVE PermsFrom(_, _)
PermsFrom(items, i) ==
    IF i > Len(items) THEN <<>>
    ELSE LET rest == PermsOf(Without(items, i))
         IN  [j \in DOMAIN rest |-> <<items[i]>> \o rest[j]] \o PermsFrom(items, i + 1)
PermsOf(items) == IF items = <<>> THEN << <<>> >> ELSE PermsFrom(items, 1)

\* itertools.permutations(range(len(middle_cities)))
Perms == PermsOf([i \in DOMAIN trip.middle_cities |-> i])

\* route_cities, route_days of one ordering
RouteCities(perm) ==
    <<trip.start_city>> \o [i \in DOMAIN perm |-> trip.middle_cities[perm[i]].name]
                        \o <<trip.end_city>>
RouteDays(perm) ==
    <<0>> \o [i \in DOMAIN perm |-> trip.middle_cities[perm[i]].days] \o <<0>>

\* The leg the evaluator is at: its cities, departure date
\* (departure_date = current_date + timedelta(days=days_per_city[i]), in
\* days after the trip's start date) and cache key
Route == RouteCities(Perms[permIdx])
Days == RouteDays(Perms[permIdx])

\* Mutant for C12: the running date is not carried from leg to leg.
DepartureFromStart == Days[ev.i]

FromCity == Route[ev.i]
ToCity == Route[ev.i + 1]
Departure == ev.current_date + Days[ev.i]
LegKey == CacheKey(FromCity, ToCity, DateStr(Departure))
LastLeg == ev.i = Len(Route) - 1

\* ------------------------------------------------------------------------
\* find_optimal_routes: keeping, ranking and labelling routes
\* ------------------------------------------------------------------------

\* Mutant for C6: every evaluated ordering is kept.
KeepsAlways(total_cost, individual_prices) == TRUE

\* if total_cost > 0 and all(price > 0 for price in individual_prices)
Keeps(total_cost, individual_prices) ==
    /\ total_cost > 0
    /\ \A k \in DOMAIN individual_prices : individual_prices[k] > 0

\* The dict appended to all_routes
RouteRecord(perm, total_cost, individual_prices, flight_dates) ==
    [perm |-> perm,
     route |-> RouteCities(perm),
     days_per_city |-> RouteDays(perm),
     total_cost |-> total_cost,
     individual_prices |-> individual_prices,
     flight_dates |-> flight_dates,
     num_flights |-> Len(RouteCities(perm)) - 1]

\* Mutant for C4: the routes are returned in the order they were found.
SortByCostSkipped(routes) == routes

\* all_routes.sort(key=lambda x: x['total_cost']): a stable sort
RECURSIVE InsertByCost(_, _)
InsertByCost(sorted, r) ==
    IF sorted = <<>> THEN <<r>>
    ELSE IF Head(sorted).total_cost <= r.total_cost
    THEN <<Head(sorted)>> \o InsertByCost(Tail(sorted), r)
    ELSE <<r>> \o sorted
RECURSIVE SortByCost(_)
SortByCost(routes) ==
    IF routes = <<>> THEN <<>>
    ELSE InsertByCost(SortByCost(SubSeq(routes, 1, Len(routes) - 1)), routes[Len(routes)])

\* all_routes[:num_results], num_results >= 0
Top(routes, n) == Prefix(routes, n)

\* base_confidence, in units of 1 / FullConfidenceCost:
\* max(0.5, 1.0 - total_cost / 5000)
BaseConfidence(total_cost) ==
    IF 2 * (FullConfidenceCost - total_cost) > FullConfidenceCost
    THEN FullConfidenceCost - total_cost
    ELSE FullConfidenceCost \div 2

\* round(base_confidence, 2), in hundredths; on a tie the binary value of
\* the float decides, so either neighbour may come out (up says which).
Round2(base, up) ==
    LET scaled == base * 100
        q == scaled \div FullConfidenceCost
        r == scaled % FullConfidenceCost
    IN  IF 2 * r > FullConfidenceCost THEN q + 1
        ELSE IF 2 * r < FullConfidenceCost THEN q
        ELSE IF up THEN q + 1 ELSE q

\* "Book now" if base_confidence > 0.7 else "Wait for better prices"
Recommendation(base) ==
    IF 10 * base > 7 * FullConfidenceCost THEN "Book now" ELSE "Wait for better prices"

\* route['confidence'] = ...; route['recommendation'] = ...
Labelled(route, up) ==
    [perm |-> route.perm,
     route |-> route.route,
     days_per_city |-> route.days_per_city,
     total_cost |-> route.total_cost,
     individual_prices |-> route.individual_prices,
     flight_dates |-> route.flight_dates,
     num_flights |-> route.num_flights,
     confidence |-> Round2(BaseConfidence(route.total_cost), up),
     recommendation |-> Recommendation(BaseConfidence(route.total_cost))]

\* What find_optimal_routes returns from the routes it kept
Ranked(routes, n, up) ==
    LET top == Top(SortByCost(routes), n)
    IN  [k \in DOMAIN top |-> Labelled(top[k], up)]

\* ------------------------------------------------------------------------
\* The price API and _get_flight_price
\* ------------------------------------------------------------------------

\* Payloads quoting the fare f: in the nested grouping; pooled from a nested
\* and a top-level list, the cheapest a string; as the direct price field.
BodyNested(f) ==
    Dict("true", Data(Itineraries([NoLists EXCEPT !["topFlights"] = List(<<Flight(Num(f))>>)]),
                      NoLists, NoneVal))
BodyPooled(f) ==
    Dict("true", Data(Itineraries([NoLists EXCEPT !["bestFlights"] =
                                       List(<<NotADict, Flight(Num(f + 100))>>)]),
                      [NoLists EXCEPT !["otherFlights"] = List(<<Flight(Bad), Flight(Str(f))>>)],
                      Num(1)))
BodyDirect(f) == Dict("true", Data(Absent, NoLists, Num(f)))

\* Payloads with no usable price: no price anywhere, a false status, a
\* missing data mapping, a body that is no mapping, a fare of zero.
BodyNoPrice == Dict("true", Data(Itineraries(NoLists), NoLists, NoneVal))
BodyStatusFalse == Dict("false", Data(Absent, NoLists, Num(740)))
BodyNoData == Dict("true", Absent)
BodyNotDict == NotADict
BodyZero == BodyNested(0)

Bodies ==
    {BodyNested(f) : f \in Fares} \cup {BodyPooled(f) : f \in Fares}
    \cup {BodyDirect(f) : f \in Fares}
    \cup {BodyNoPrice, BodyStatusFalse, BodyNoData, BodyNotDict, BodyZero}

\* What requests.get and response.json() come to: an exception (network,
\* timeout, malformed JSON), or a status code with a parsed body.
Raises == [kind |-> "raise"]
Http(status_code, body) == [kind |-> "http", status_code |-> status_code, body |-> body]
Responses ==
    {Raises} \cup {Http(200, b) : b \in Bodies}
    \cup {Http(c, BodyNotDict) : c \in {404, 429, 500}}

\* Mutant for C7: any extracted price is cached and returned.
IsValidPriceAny(price) == price.some

\* if price is not None and price > 0
IsValidPrice(price) == price.some /\ Positive(price.v)

\* The response makes _get_flight_price cache and return a price
Priced(resp) ==
    /\ resp.kind = "http"
    /\ resp.status_code = 200
    /\ IsValidPrice(ExtractPrice(resp.body))

\* What _get_flight_price returns after a cache miss
FetchedPrice(resp) == IF Priced(resp) THEN ExtractPrice(resp.body).v.v ELSE 0

\* Mutant for C2: a fetched price is never stored.
PriceCacheAfterNever(cache, key, resp) == cache

\* self.price_cache[cache_key] = price, on a valid price only
PriceCacheAfter(cache, key, resp) ==
    IF Priced(resp)
    THEN [k \in DOMAIN cache \cup {key} |->
             IF k = key THEN ExtractPrice(resp.body).v.v ELSE cache[k]]
    ELSE cache

\* elif response.status_code == 429: time.sleep(2)
BackoffAfter(resp) ==
    IF resp.kind = "http" /\ resp.status_code = 429 THEN Backoff ELSE 0

\* wait_if_needed called by the one thread of the search at instant t, its
\* sleep, if any, ending at instant wake: the window it leaves.
WindowAfter(reqs, t, wake) ==
    LET purged == PurgeOld(reqs, t)
    IN  IF MustSleep(purged, t)
        THEN Record(PurgeOld(purged, wake), t)
        ELSE Record(purged, t)

\* The instant at which that call returns, having overslept by over
WakeTime(reqs, t, over) ==
    LET purged == PurgeOld(reqs, t)
    IN  IF MustSleep(purged, t) THEN t + SleepTime(purged, t) + over ELSE t

\* ------------------------------------------------------------------------
\* find_optimal_routes, step by step
\* ------------------------------------------------------------------------

Init ==
    /\ FreshLimiter
    /\ FreshCaches
    /\ trip \in Trips
    /\ net \in [latency : 0..MaxLatency, oversleep : 0..MaxOversleep]
    /\ phase = "call"
    /\ permIdx = 1
    /\ ev = EvStart
    /\ all_routes = <<>>
    /\ result = <<>>
    /\ evLog = <<>>
    /\ num_results = 0
    /\ NoExtraction

\* if not start_city or not end_city: return []
RejectEmpty ==
    /\ phase = "call"
    /\ trip.start_city = <<>> \/ trip.end_city = <<>>
    /\ result' = <<>>
    /\ phase' = "done"
    /\ UNCHANGED <<trip, net, permIdx, ev, all_routes, evLog, num_results>>
    /\ UNCHANGED <<clock, requests, threadVars, resolverVars, priceVars>>

\* The search starts with the first ordering
BeginSearch ==
    /\ phase = "call"
    /\ trip.start_city # <<>> /\ trip.end_city # <<>>
    /\ phase' = "eval"
    /\ UNCHANGED <<trip, net, permIdx, ev, all_routes, result, evLog, num_results>>
    /\ UNCHANGED <<clock, requests, threadVars, resolverVars, priceVars>>

\* return total_cost, individual_prices, flight_dates
Returns(total_cost, individual_prices, flight_dates) ==
    [total_cost |-> total_cost,
     individual_prices |-> individual_prices,
     flight_dates |-> flight_dates]

\* The evaluator returns (total_cost, individual_prices, flight_dates) for
\* the current ordering: the route is kept or not, and the loop goes on to
\* the next ordering, or to the ranking after the last.
EndOrdering(total_cost, individual_prices, flight_dates) ==
    /\ all_routes' =
        IF Keeps(total_cost, individual_prices)
        THEN Append(all_routes,
                    RouteRecord(Perms[permIdx], total_cost, individual_prices, flight_dates))
        ELSE all_routes
    /\ evLog' = Append(evLog, Returns(total_cost, individual_prices, flight_dates))
    /\ ev' = EvStart
    /\ IF permIdx < Len(Perms)
       THEN permIdx' = permIdx + 1 /\ phase' = "eval"
       ELSE permIdx' = permIdx /\ phase' = "rank"

\* total_cost += price; the lists grow; current_date = departure_date;
\* after the last leg the evaluator returns what it gathered
Accumulate(price) ==
    LET total_cost == ev.total_cost + price
        individual_prices == Append(ev.individual_prices, price)
        flight_dates == Append(ev.flight_dates, DateStr(Departure))
    IN  IF LastLeg
        THEN EndOrdering(total_cost, individual_prices, flight_dates)
        ELSE /\ ev' = [i |-> ev.i + 1,
                       current_date |-> Departure,
                       total_cost |-> total_cost,
                       individual_prices |-> individual_prices,
                       flight_dates |-> flight_dates]
             /\ UNCHANGED <<permIdx, all_routes, evLog, phase>>

\* Mutant for C5: the first unpriced leg ends the whole search.
AfterPriceGivesUp(price) ==
    IF price <= 0
    THEN /\ phase' = "rank"
         /\ ev' = EvStart
         /\ UNCHANGED <<permIdx, all_routes, evLog>>
    ELSE Accumulate(price)

\* Mutant for C11: an unpriced leg is added up like any other.
AfterPriceCarriesOn(price) == Accumulate(price)

\* The evaluator's loop body once the leg's price is known:
\* if price <= 0: return 0, [], []
AfterPrice(price) ==
    IF price <= 0
    THEN EndOrdering(0, <<>>, <<>>)
    ELSE Accumulate(price)

\* The price returned is logged for the ordering being evaluated
Logged(price) ==
    IF Len(legLog) < permIdx
    THEN Append(legLog, <<price>>)
    ELSE [legLog EXCEPT ![permIdx] = Append(@, price)]

\* The call of _get_flight_price being made, as it ends
Ended(price, how) ==
    [from_city |-> FromCity, to_city |-> ToCity, date |-> DateStr(Departure),
     price |-> price, outcome |-> how]

\* Mutant for C8: the price cache is never consulted.
IsCachedNever(cache, key) == FALSE

\* if cache_key in self.price_cache
IsCached(cache, key) == key \in DOMAIN cache

\* _get_flight_price finds the leg in price_cache
PriceHit ==
    /\ phase = "eval"
    /\ IsCached(price_cache, LegKey)
    /\ last' = Ended(price_cache[LegKey], "hit")
    /\ nprice' = nprice + 1
    /\ legLog' = Logged(last'.price)
    /\ AfterPrice(last'.price)
    /\ UNCHANGED <<price_cache, apiLog, payload, extracted>>
    /\ UNCHANGED <<trip, net, result, num_results>>
    /\ UNCHANGED <<clock, requests, threadVars, resolverVars>>

\* _get_flight_price misses the cache: it passes the rate limiter, resolves
\* both cities, sends the request and handles the response.
PriceFetch ==
    /\ phase = "eval"
    /\ ~IsCached(price_cache, LegKey)
    /\ LET wake == WakeTime(requests, clock, net.oversleep)
           from_iata == IataCode(iata_cache, FromCity)
           cache1 == IataCacheNext(iata_cache, FromCity)
           to_iata == IataCode(cache1, ToCity)
       IN  /\ requests' = WindowAfter(requests, clock, wake)
           /\ iata_cache' = IataCacheNext(cache1, ToCity)
           /\ lookups' = lookups + IataLookups(iata_cache, FromCity)
                                 + IataLookups(cache1, ToCity)
           /\ resolved' = resolved \o
                <<[text |-> FromCity, code |-> from_iata,
                   looked_up |-> ~IataHit(iata_cache, FromCity)],
                  [text |-> ToCity, code |-> to_iata,
                   looked_up |-> ~IataHit(cache1, ToCity)]>>
           /\ \E resp \in Responses :
                /\ clock' = wake + net.latency + BackoffAfter(resp)
                /\ price_cache' = PriceCacheAfter(price_cache, LegKey, resp)
                /\ last' = Ended(FetchedPrice(resp), IF Priced(resp) THEN "ok" ELSE "fail")
                /\ apiLog' = Append(apiLog,
                     [from_city |-> FromCity, to_city |-> ToCity,
                      date |-> DateStr(Departure),
                      departure_id |-> from_iata, arrival_id |-> to_iata,
                      priced |-> Priced(resp)])
    /\ nprice' = nprice + 1
    /\ legLog' = Logged(last'.price)
    /\ AfterPrice(last'.price)
    /\ UNCHANGED <<trip, net, result, num_results, payload, extracted>>
    /\ UNCHANGED threadVars

\* if not all_routes: return []; else sort, label the top num_results and
\* return them
Rank(n, up) ==
    /\ phase = "rank"
    /\ num_results' = n
    /\ result' = IF all_routes = <<>> THEN <<>> ELSE Ranked(all_routes, n, up)
    /\ phase' = "done"
    /\ UNCHANGED <<trip, net, permIdx, ev, all_routes, evLog>>
    /\ UNCHANGED <<clock, requests, threadVars, resolverVars, priceVars>>

Next ==
    \/ RejectEmpty
    \/ BeginSearch
    \/ PriceHit
    \/ PriceFetch
    \/ \E n \in 0..MaxLimit, up \in BOOLEAN : Rank(n, up)

Spec == Init /\ [][Next]_vars

\* ------------------------------------------------------------------------
\* C1
\* ------------------------------------------------------------------------

\* The admissions (returns from wait_if_needed) inside [t, t + time_window).
AdmissionsIn(t) ==
    Cardinality({i \in DOMAIN admitted : t <= admitted[i] /\ admitted[i] < t + time_window})

\* C1: under any interleaving of concurrent callers, every time interval
\* of length time_window contains at most max_requests admissions, an
\* admission being counted when wait_if_needed returns.
C1_WindowAdmissions ==
    \A t \in 0..(MaxTime + time_window) : AdmissionsIn(t) <= max_requests

\* ------------------------------------------------------------------------
\* C9
\* ------------------------------------------------------------------------

\* A call of thread t has returned.
Returned(t) == pc[t] = "idle" /\ calls[t] > 0

\* C9: the limiter delays but never drops: under fair scheduling and
\* advancing time every call of wait_if_needed eventually returns, and a
\* call that has returned has appended exactly one timestamp (while it is
\* still blocked it has appended none).
C9_DelaysNeverDrops ==
    /\ \A t \in Threads : [](pc[t] # "idle" => <>(pc[t] = "idle"))
    /\ [](\A t \in Threads : appended[t] = (IF Returned(t) THEN 1 ELSE 0))

\* Witness of C9: a call that found the window full, slept, and returned
\* with its single timestamp appended.
C9_Witness ==
    \E t \in Threads :
        /\ Returned(t)
        /\ wakeAt[t] > now[t]
        /\ appended[t] = 1

\* ------------------------------------------------------------------------
\* C10
\* ------------------------------------------------------------------------

\* C10: resolving the same location text twice within one RouteOptimizer
\* yields the same code both times, and the later resolution makes no call
\* of the dataset lookup.
C10_ResolveTwice ==
    \A i, j \in DOMAIN resolved :
        (i < j /\ resolved[i].text = resolved[j].text) =>
            /\ resolved[j].code = resolved[i].code
            /\ ~resolved[j].looked_up

\* Witness of C10: a text resolved by the dataset lookup is resolved again.
C10_Witness ==
    \E i, j \in DOMAIN resolved :
        /\ i < j
        /\ resolved[i].text = resolved[j].text
        /\ resolved[i].looked_up

\* ------------------------------------------------------------------------
\* Histories of a search
\* ------------------------------------------------------------------------

\* The (origin, destination, date) leg of a logged API request
LegOf(entry) == <<entry.from_city, entry.to_city, entry.date>>

\* The orderings whose evaluation has ended
Evaluated ==
    {p \in DOMAIN legLog : p < permIdx \/ phase \in {"rank", "done"}}

\* Ordering p had every one of its legs priced > 0
FullyPriced(p) ==
    /\ p \in DOMAIN legLog
    /\ Len(legLog[p]) = Len(RouteCities(Perms[p])) - 1
    /\ \A k \in DOMAIN legLog[p] : legLog[p][k] > 0

RECURSIVE Sum(_)
Sum(prices) == IF prices = <<>> THEN 0 ELSE Head(prices) + Sum(Tail(prices))

Min(a, b) == IF a <= b THEN a ELSE b

\* The orderings, by position, that all_routes or the result hold
KeptIn(routes) ==
    {p \in DOMAIN Perms : \E k \in DOMAIN routes : routes[k].perm = Perms[p]}

\* The search itself has run (both cities were given)
Searched == phase = "done" /\ trip.start_city # <<>> /\ trip.end_city # <<>>

\* ------------------------------------------------------------------------
\* C2
\* ------------------------------------------------------------------------

\* C2 as stated: for every unique (origin, destination, date) leg at most
\* one request is issued to the price API, however many orderings reuse it.
C2_OneRequestPerLeg ==
    \A i, j \in DOMAIN apiLog :
        i # j => LegOf(apiLog[i]) # LegOf(apiLog[j])

\* C2 as amended: a leg is requested again only after requests that gave no
\* valid price; once a request for a leg was answered with a valid positive
\* price, no further request for that leg is issued.
C2_OnePricedRequestPerLeg ==
    \A i, j \in DOMAIN apiLog :
        (i < j /\ LegOf(apiLog[i]) = LegOf(apiLog[j])) => ~apiLog[i].priced

\* Witness of C2: a leg priced by the API for one ordering is served from
\* the cache for a later ordering.
C2_Witness ==
    /\ last.outcome = "hit"
    /\ Len(legLog) > 1
    /\ \E i \in DOMAIN apiLog :
        /\ apiLog[i].priced
        /\ LegOf(apiLog[i]) = <<last.from_city, last.to_city, last.date>>

\* ------------------------------------------------------------------------
\* C3
\* ------------------------------------------------------------------------

\* C3: every itinerary returned has 0.5 <= confidence <= 1.0 (confidence is
\* in hundredths), and its recommendation is "Book now" if and only if the
\* reported, rounded confidence is > 0.7, else "Wait for better prices".
C3_ConfidenceAndLabel ==
    phase = "done" =>
        \A k \in DOMAIN result :
            /\ 50 <= result[k].confidence /\ result[k].confidence <= 100
            /\ result[k].recommendation =
                 (IF result[k].confidence > 70
                  THEN "Book now" ELSE "Wait for better prices")

\* ------------------------------------------------------------------------
\* C4
\* ------------------------------------------------------------------------

\* C4: the result holds the cheapest fully priced orderings in ascending
\* order: its length is min(num_results, number of fully priced orderings),
\* adjacent totals do not decrease, every entry is a fully priced ordering
\* with the sum of its leg prices as total, and no fully priced ordering
\* left out is strictly cheaper than a returned one.
C4_CheapestAscending ==
    Searched =>
        /\ Len(result) = Min(num_results, Cardinality({p \in DOMAIN Perms : FullyPriced(p)}))
        /\ \A k \in 1..(Len(result) - 1) :
            result[k].total_cost <= result[k + 1].total_cost
        /\ \A p \in KeptIn(result) : FullyPriced(p)
        /\ \A k \in DOMAIN result :
            \A p \in DOMAIN Perms :
                result[k].perm = Perms[p] => result[k].total_cost = Sum(legLog[p])
        /\ \A p \in DOMAIN Perms :
            (FullyPriced(p) /\ p \notin KeptIn(result)) =>
                \A k \in DOMAIN result : Sum(legLog[p]) >= result[k].total_cost

\* Witness of C4: two orderings were kept, the dearer one found first, and
\* only the cheaper one is returned.
C4_Witness ==
    /\ Searched
    /\ Len(all_routes) = 2
    /\ all_routes[1].total_cost > all_routes[2].total_cost
    /\ Len(result) = 1

\* ------------------------------------------------------------------------
\* C5
\* ------------------------------------------------------------------------

\* C5: an ordering whose evaluation has ended is kept as a candidate if and
\* only if every one of its legs was priced > 0; after a failure the search
\* goes on, so that every ordering has been evaluated when the ranking
\* starts; and when no ordering is fully priced the search returns [].
C5_UnpricedLegDiscardsItsOrdering ==
    /\ \A p \in Evaluated : (p \in KeptIn(all_routes)) <=> FullyPriced(p)
    /\ KeptIn(all_routes) \subseteq Evaluated
    /\ phase \in {"rank", "done"} /\ trip.start_city # <<>> /\ trip.end_city # <<>>
         => DOMAIN legLog = DOMAIN Perms
    /\ (Searched /\ ~\E p \in DOMAIN Perms : FullyPriced(p)) => result = <<>>

\* Witness of C5: the first ordering lost a leg, the search went on and
\* returned the second, fully priced ordering.
C5_Witness ==
    /\ Searched
    /\ Len(Perms) = 2
    /\ ~FullyPriced(1)
    /\ FullyPriced(2)
    /\ KeptIn(result) = {2}

\* ------------------------------------------------------------------------
\* C6
\* ------------------------------------------------------------------------

\* C6: every itinerary returned has one price and one date per leg,
\* len(individual_prices) = len(route) - 1 = len(flight_dates), and every
\* price is strictly positive.
C6_OnePositivePricePerLeg ==
    phase = "done" =>
        \A k \in DOMAIN result :
            /\ Len(result[k].individual_prices) = Len(result[k].route) - 1
            /\ Len(result[k].flight_dates) = Len(result[k].route) - 1
            /\ \A l \in DOMAIN result[k].individual_prices :
                result[k].individual_prices[l] > 0

\* Witness of C6: a returned itinerary of three legs, after another
\* ordering was dropped.
C6_Witness ==
    /\ phase = "done"
    /\ Len(result) = 1
    /\ Len(result[1].route) = 4
    /\ Len(legLog) = 2

\* ------------------------------------------------------------------------
\* C7
\* ------------------------------------------------------------------------

\* C7: a call of _get_flight_price that fails (any status but 200, an
\* exception, no valid positive price in the payload) returns 0.0 and
\* leaves price_cache unchanged; price_cache changes only by one entry,
\* for the leg asked about, holding the strictly positive price returned;
\* so every cached value is > 0.
C7_FailureReturnsZeroUncached ==
    [][nprice' = nprice + 1 =>
          /\ last'.outcome = "fail" => (last'.price = 0 /\ price_cache' = price_cache)
          /\ last'.outcome # "fail" => last'.price > 0
          /\ price_cache' # price_cache =>
                /\ last'.outcome = "ok"
                /\ DOMAIN price_cache' = DOMAIN price_cache \cup {LegKey}
                /\ price_cache'[LegKey] = last'.price
                /\ \A k \in DOMAIN price_cache : price_cache'[k] = price_cache[k]
          /\ \A k \in DOMAIN price_cache' : price_cache'[k] > 0]_vars

\* Witness of C7: a request fails while the cache holds a price.
C7_Witness ==
    /\ last.outcome = "fail"
    /\ last.price = 0
    /\ price_cache # <<>>

\* ------------------------------------------------------------------------
\* C8
\* ------------------------------------------------------------------------

\* C8: a call of _get_flight_price for a leg whose key is in price_cache
\* returns the cached price, sends no API request, does not pass the rate
\* limiter (its window and the clock are unchanged) and leaves the cache
\* unchanged.
C8_CacheHitShortCircuits ==
    [][(nprice' = nprice + 1 /\ LegKey \in DOMAIN price_cache) =>
          /\ last'.price = price_cache[LegKey]
          /\ apiLog' = apiLog
          /\ requests' = requests
          /\ clock' = clock
          /\ price_cache' = price_cache]_vars

\* Witness of C8: a call was served from the cache after the limiter had
\* admitted requests.
C8_Witness ==
    /\ last.outcome = "hit"
    /\ requests # <<>>

\* ------------------------------------------------------------------------
\* C11
\* ------------------------------------------------------------------------

\* The legs of ordering p
Legs(p) == Len(RouteCities(Perms[p])) - 1

\* C11: the cost evaluator is all-or-nothing and aborts at once: when the
\* price of a leg is <= 0 it returns (0, [], []) and that leg's lookup is the
\* last of the ordering; otherwise it looks up every leg and returns the sum
\* of the leg prices with one price and one date per leg.
C11_AllOrNothing ==
    /\ \A p \in DOMAIN legLog : \A k \in 1..(Len(legLog[p]) - 1) : legLog[p][k] > 0
    /\ \A p \in DOMAIN evLog :
        IF \E k \in DOMAIN legLog[p] : legLog[p][k] <= 0
        THEN evLog[p] = Returns(0, <<>>, <<>>)
        ELSE /\ Len(legLog[p]) = Legs(p)
             /\ evLog[p].total_cost = Sum(legLog[p])
             /\ evLog[p].individual_prices = legLog[p]
             /\ Len(evLog[p].flight_dates) = Legs(p)

\* Witness of C11: one ordering was aborted at an unpriced leg with legs
\* left unrequested, and another was priced on all of its several legs.
C11_Witness ==
    /\ \E p \in DOMAIN evLog :
        /\ legLog[p][Len(legLog[p])] <= 0
        /\ Len(legLog[p]) < Legs(p)
    /\ \E p \in DOMAIN evLog :
        /\ Legs(p) > 1
        /\ evLog[p].total_cost > 0

\* ------------------------------------------------------------------------
\* C12
\* ------------------------------------------------------------------------

\* The dwell-days of the origin cities of legs 1..i of an ordering: none for
\* the start city, then those of the stops in the permuted order.
RECURSIVE DwellBefore(_, _)
DwellBefore(perm, i) ==
    IF i <= 1 THEN 0
    ELSE trip.middle_cities[perm[i - 1]].days + DwellBefore(perm, i - 1)

\* C12: for every evaluated ordering the departure date of a leg, as passed
\* to the price lookup and as returned by the evaluator, is the trip start
\* date plus the dwell-days of the origin cities of the legs up to it, the
\* start city counting 0 and each stop its own days in the permuted order;
\* the first leg departs on the trip start date.
C12_DepartureDates ==
    /\ [][nprice' # nprice =>
            /\ last'.date = DateStr(DwellBefore(Perms[permIdx], ev.i))
            /\ ev.i = 1 => last'.date = DateStr(0)]_vars
    /\ [](\A p \in DOMAIN evLog : \A i \in DOMAIN evLog[p].flight_dates :
            evLog[p].flight_dates[i] = DateStr(DwellBefore(Perms[p], i)))

\* Witness of C12: the evaluator returned an ordering of three legs whose
\* second leg departs on the start date (after a stop of no days) and whose
\* last leg departs later, and this trip's other ordering with other dates.
C12_Witness ==
    /\ \E p \in DOMAIN evLog :
        /\ Len(evLog[p].flight_dates) = 3
        /\ evLog[p].flight_dates[2] = DateStr(0)
        /\ evLog[p].flight_dates[3] = DateStr(1)
    /\ \E p \in DOMAIN evLog :
        /\ Len(evLog[p].flight_dates) = 3
        /\ evLog[p].flight_dates[2] = DateStr(1)

\* ------------------------------------------------------------------------
\* C14
\* ------------------------------------------------------------------------

\* C14: after any sequence of wait_if_needed calls, from any number of
\* callers, the window of tracked timestamps never holds more than
\* max_requests entries, also when a sleep ends exactly as the oldest
\* timestamp reaches the edge of the window.
C14_WindowBounded == Len(requests) <= max_requests

\* ------------------------------------------------------------------------
\* C15
\* ------------------------------------------------------------------------

\* C15: the normalization cache is transparent: the code _get_iata_code
\* returns for a text is the code an uncached resolution of that text
\* returns, whatever texts were resolved before it, texts differing from it
\* only in letter case included.
C15_CacheTransparent ==
    \A i \in DOMAIN resolved : resolved[i].code = MissCode(resolved[i].text)

\* ------------------------------------------------------------------------
\* C13
\* ------------------------------------------------------------------------

\* The body is one the extraction must reject: no mapping, a status that is
\* not boolean true, or a data field that is no mapping.
Rejected(data) ==
    \/ data.kind # "dict"
    \/ data.status # "true"
    \/ data.data.kind # "dict"

\* The mappings searched for flight lists: the nested grouping, if it is a
\* mapping, and the data mapping itself
ListMaps(data_content) ==
    (IF data_content.itineraries.kind = "dict"
     THEN {data_content.itineraries.lists} ELSE {})
    \cup {data_content.lists}

\* The entries of the lists a mapping holds under the four keys
EntriesUnder(m) ==
    UNION {{m[k].items[i] : i \in DOMAIN m[k].items} :
              k \in {key \in DOMAIN m : m[key].kind = "list"}}

\* Every entry of every flight list under the four keys, nested and at the
\* top level of the data mapping
PooledEntries(data_content) ==
    UNION {EntriesUnder(m) : m \in ListMaps(data_content)}

\* The numeric prices of the pooled entries: numbers and numeric strings
NumericPrices(data_content) ==
    {e.price.v : e \in {x \in PooledEntries(data_content) :
                            x.kind = "dict" /\ x.price.kind \in {"num", "str"}}}

\* C13: every flight list under the four keys, nested and top-level, is
\* pooled, and if any pooled entry has a numeric price the result is the
\* minimum over all of them; the direct price field is used only when no
\* list price was collected; the result is "no price" when the body is no
\* mapping, its status is not boolean true, or its data is no mapping.
C13_PooledMinimum ==
    extracted.done =>
        IF Rejected(payload) THEN extracted.price = None
        ELSE IF NumericPrices(payload.data) # {}
        THEN /\ extracted.price.some
             /\ ~extracted.price.v.nan
             /\ extracted.price.v.v \in NumericPrices(payload.data)
             /\ \A v \in NumericPrices(payload.data) : extracted.price.v.v <= v
        ELSE extracted.price.some =>
                /\ Parses(payload.data.price)
                /\ extracted.price.v = ToFloat(payload.data.price)

====
